---- MODULE Spec2Model ----
(***************************************************************************)
(* Conway's Game of Life in Rust and SDL2 (src/src/main.rs): the cell      *)
(* grid, the linear-index wrap-around neighbourhood, the generation step,  *)
(* the Edit/Play/Stop mode machine and the per-frame main loop.            *)
(***************************************************************************)
EXTENDS Integers, Sequences, FiniteSets, TLC

\* ------------------------------------------------------------------------
\* Program constants
\* ------------------------------------------------------------------------
SCREEN_OUTPUT == <<800, 480>>
GOL_CELL_W == 8
GOL_CELL_H == 8
GOL_COLS == 50
GOL_ROWS == 30
GOL_MEMORY_SIZE == GOL_COLS * GOL_ROWS
GOL_NEIGHBORS ==
    <<-GOL_COLS, GOL_COLS, -1, 1, -GOL_COLS - 1, -GOL_COLS + 1, GOL_COLS - 1, GOL_COLS + 1>>

\* i32: every integer of the program is a 32-bit signed integer.
I32_MAX == 2147483647
I32_MIN == -I32_MAX - 1

GameMode == {"Edit", "Play", "Stop"}

\* The array indices 0 .. len-1 of memory and of copy_of_cells.
Cells == 0 .. GOL_MEMORY_SIZE - 1

\* ------------------------------------------------------------------------
\* Bounds of the model
\* ------------------------------------------------------------------------
\* Updates run in Play mode before the model stops taking frames.
MaxPlayFrames == 33
\* Discrete events queued for one frame.
MaxEvents == 2
\* Generation steps applied to a grid by the specifications of animate alone.
MaxGenerations == 2
\* Range widths a sampled argument of wrap lies away from the range.
MaxWraps == 3
\* Generation steps applied to a grid seeded with a glider.
MaxGlides == 4

\* ------------------------------------------------------------------------
\* State
\* ------------------------------------------------------------------------
VARIABLES
    pc,              \* position of main: "handle_events", "update", "draw", "done"
    is_running,      \* main's loop flag
    mode,            \* GameOfLife.mode
    dark,            \* GameOfLife.dark
    frames,          \* GameOfLife.frames: <<period, remaining>>
    memory,          \* GameOfLife.memory: [Cells -> i32]
    cursor,          \* the system cursor SDL shows: "Arrow" or "Crosshair"
    sampled,         \* <<[mouse, mode, quit, drained]>>: the mouse state handle_events
                     \* sampled, the mode it found, whether the event queue held a quit
                     \* signal or an Escape key-press, and whether the poll loop handled
                     \* every queued event, while update has not yet run; <<>> otherwise
    canvas,          \* what draw emitted for the frame last presented
    play_updates,    \* history: updates that ran in Play mode
    animations,      \* history: calls of animate made by update
    toggle_log,      \* history: <<mode, cursor>> before each of the last two toggles
    overflow_checks, \* build profile: TRUE when arithmetic overflow panics (debug)
    twin,            \* SpecTwin: a second GameOfLife session
    anim,            \* SpecVisit: the locals of a call of animate in progress
    wrap_call,       \* SpecWrap: a call of wrap: its arguments and its outcome
    pattern,         \* SpecPattern: the pattern the grid was seeded with
    access           \* SpecIndex: an indexing of the grid: how its index is formed

\* The variables of the main loop, and those only the other specifications use.
main_vars == <<pc, is_running, mode, dark, frames, memory, cursor, sampled,
               canvas, play_updates, animations, toggle_log, overflow_checks>>
aux_vars == <<twin, anim, wrap_call, pattern, access>>
vars == <<main_vars, aux_vars>>

\* The GameOfLife object the methods take as self.
Self == [mode |-> mode, dark |-> dark, frames |-> frames, memory |-> memory]

\* ------------------------------------------------------------------------
\* i32 arithmetic.  In a build with overflow checks (cargo's default debug
\* profile) an overflowing + or - panics; without them the result wraps
\* modulo 2^32.  Every intermediate value below stays inside the i32 range.
\* ------------------------------------------------------------------------
AddOverflows(a, b) == IF b > 0 THEN a > I32_MAX - b ELSE a < I32_MIN - b
SubOverflows(a, b) == IF b < 0 THEN a > I32_MAX + b ELSE a < I32_MIN + b

\* a + b as an i32 without overflow checks (two's complement wrap-around).
add_i32(a, b) ==
    IF ~AddOverflows(a, b) THEN a + b
    ELSE IF b > 0 THEN ((a - I32_MAX) + (b + I32_MIN)) - 1
    ELSE ((a - I32_MIN) + (b + I32_MAX)) + 1

\* a - b as an i32 without overflow checks.
sub_i32(a, b) ==
    IF ~SubOverflows(a, b) THEN a - b
    ELSE IF b < 0 THEN ((a - I32_MAX) + (I32_MIN - b)) - 1
    ELSE ((a - I32_MIN) + (I32_MAX - b)) + 1

\* ------------------------------------------------------------------------
\* wrap
\* ------------------------------------------------------------------------
\* while n < min { n += max - min; }
RECURSIVE wrap_while_lt(_, _, _)
wrap_while_lt(n, min, max) ==
    IF n < min THEN wrap_while_lt(add_i32(n, sub_i32(max, min)), min, max) ELSE n

\* The second loop with the test n > max.
RECURSIVE wrap_while_gt(_, _, _)
wrap_while_gt(n, min, max) ==
    IF n > max THEN wrap_while_gt(sub_i32(n, sub_i32(max, min)), min, max) ELSE n

\* while n >= max { n -= max - min; }
RECURSIVE wrap_while_ge(_, _, _)
wrap_while_ge(n, min, max) ==
    IF n >= max THEN wrap_while_ge(sub_i32(n, sub_i32(max, min)), min, max) ELSE n

\* The value wrap returns (when it returns).
wrap(n, min, max) == wrap_while_ge(wrap_while_lt(n, min, max), min, max)

\* Some + or - executed by the first loop overflows.
RECURSIVE lt_overflows(_, _, _)
lt_overflows(n, min, max) ==
    /\ n < min
    /\ \/ SubOverflows(max, min)
       \/ AddOverflows(n, max - min)
       \/ lt_overflows(n + (max - min), min, max)

\* Some - executed by the second loop overflows.
RECURSIVE ge_overflows(_, _, _)
ge_overflows(n, min, max) ==
    /\ n >= max
    /\ \/ SubOverflows(max, min)
       \/ SubOverflows(n, max - min)
       \/ ge_overflows(n - (max - min), min, max)

\* wrap panics ("attempt to add/subtract with overflow") instead of returning.
wrap_panics(n, min, max) ==
    /\ overflow_checks
    /\ \/ lt_overflows(n, min, max)
       \/ ge_overflows(wrap_while_lt(n, min, max), min, max)

\* ------------------------------------------------------------------------
\* GameOfLife
\* ------------------------------------------------------------------------
\* ColorPalette::set(vec![blackish, whitish]) and get_color(n), 0-based.
colors == [n \in 0 .. 1 |-> IF n = 0 THEN <<34, 34, 35>> ELSE <<240, 246, 240>>]
get_color(n) == colors[n]

\* GameOfLife::new()
new ==
    [mode |-> "Play", dark |-> TRUE, frames |-> <<16, 16>>,
     memory |-> [i \in Cells |-> 0]]

\* The cells main sets alive before the loop: LWSS, blinker, glider.
SeedCells ==
    {640, 641, 642, 643, 689, 693, 743, 792, 310, 360, 410, 1040, 1088, 1090, 1139, 1140}
seeded(self) == [self EXCEPT !.memory = [i \in Cells |-> IF i \in SeedCells THEN 1 ELSE @[i]]]

set_mode(self, m) == [self EXCEPT !.mode = m]

\* The copy taken from index 0 on.
copy_cells_all(mem) == [i \in Cells |-> mem[i]]

\* let mut copy_of_cells = [0; N]; for i in 1 .. len { copy_of_cells[i] = memory[i]; }
copy_cells(mem) == [i \in Cells |-> IF i \in 1 .. GOL_MEMORY_SIZE - 1 THEN mem[i] ELSE 0]

\* cells[k as usize] panics ("index out of bounds") for an i32 k outside the
\* array: a negative k converts to a usize above every length.
index_panics(k) == k < 0 \/ k >= GOL_MEMORY_SIZE

\* The index of the k-th neighbour without the call of wrap.
neighbor_index_unwrapped(i, k) == GOL_NEIGHBORS[k] + i

\* wrap(neighbor + i as i32, 0, GOL_MEMORY_SIZE as i32): the index at which
\* the k-th neighbour of cell i is read.
neighbor_index(i, k) == wrap(GOL_NEIGHBORS[k] + i, 0, GOL_MEMORY_SIZE)

\* The live-neighbour count n of cell i, read from cells.
neighbors(cells, i) ==
    Cardinality({k \in 1 .. 8 : cells[neighbor_index(i, k)] = 1})

\* The Rules with survival on exactly two neighbours.
rules_survive_two(c, n) ==
    IF (n >= 2 /\ n < 3) /\ c = 1 THEN 1
    ELSE IF n = 3 /\ c = 0 THEN 1
    ELSE 0

\* The Rules without births.
rules_no_birth(c, n) ==
    IF (n >= 2 /\ n <= 3) /\ c = 1 THEN 1
    ELSE 0

\* The Rules with the neighbour count stored in a surviving cell.
rules_store_count(c, n) ==
    IF (n >= 2 /\ n <= 3) /\ c = 1 THEN n
    ELSE IF n = 3 /\ c = 0 THEN 1
    ELSE 0

\* The Rules, for a cell of value c with n live neighbours.
rules(c, n) ==
    IF (n >= 2 /\ n <= 3) /\ c = 1 THEN 1
    ELSE IF n = 3 /\ c = 0 THEN 1
    ELSE 0

\* The value the body of animate's second loop writes at cell i: c and the
\* neighbour values are read from cells.
next_cell(cells, i) == rules(cells[i], neighbors(cells, i))

\* The naive pass: c and the neighbour values are read from the grid being written.
visit_in_place(mem, copy_of_cells, i) == [mem EXCEPT ![i] = next_cell(mem, i)]

\* One pass of the body of animate's second loop, at cell i.
visit(mem, copy_of_cells, i) == [mem EXCEPT ![i] = next_cell(copy_of_cells, i)]

\* animate stepping the grid in Play mode only.
animate_play_only(self) ==
    LET copy_of_cells == copy_cells(self.memory)
    IN  IF self.mode # "Play" THEN self
        ELSE [self EXCEPT !.memory =
                [i \in Cells |-> IF i \in 1 .. GOL_MEMORY_SIZE - 1
                                 THEN next_cell(copy_of_cells, i)
                                 ELSE self.memory[i]]]

\* animate with the second loop starting at index 0.
animate_from_zero(self) ==
    LET copy_of_cells == copy_cells(self.memory)
    IN  [self EXCEPT !.memory = [i \in Cells |-> next_cell(copy_of_cells, i)]]

\* animate: the loop visits every index 1 .. len-1 once, in ascending order,
\* and each visit writes only its own cell, from the copy; index 0 is never
\* visited.  (SpecVisit runs the loop one visit at a time.)
animate(self) ==
    LET copy_of_cells == copy_cells(self.memory)
    IN  [self EXCEPT !.memory =
            [i \in Cells |-> IF i \in 1 .. GOL_MEMORY_SIZE - 1
                             THEN next_cell(copy_of_cells, i)
                             ELSE self.memory[i]]]

\* A timer test that fires one frame late.
update_fires_late(self) == self.mode = "Play" /\ self.frames[2] - 1 < 0

\* update calls animate in this frame: Play mode, and the decremented timer is <= 0.
update_fires(self) == self.mode = "Play" /\ self.frames[2] - 1 <= 0

\* GameOfLife::update
update(self) ==
    CASE self.mode = "Edit" -> self
      [] self.mode = "Play" ->
            LET ticked == [self EXCEPT !.frames[2] = @ - 1]
            IN  IF update_fires(self)
                THEN animate([ticked EXCEPT !.frames[2] = ticked.frames[1]])
                ELSE ticked
      [] self.mode = "Stop" -> self

\* The guide grid of Edit mode: 1450 points.
grid_points == {<<(i % 50) * 8 + 8, (i \div 50) * 8 + 8>> : i \in 0 .. 1449}

\* The rectangle draw fills for cell i: <<x, y, width, height>>.
cell_rect(i) == <<(i % 50) * 8, (i \div 50) * 8, GOL_CELL_W, GOL_CELL_H>>

\* GameOfLife::draw: the colour cleared to, the draw colour, the points and
\* the rectangles it emits.
draw(self) ==
    LET background == IF self.dark THEN 0 ELSE 1
        foreground == IF self.dark THEN 1 ELSE 0
    IN  [clear  |-> get_color(background),
         color  |-> get_color(foreground),
         points |-> IF self.mode = "Edit" THEN grid_points ELSE {},
         rects  |-> {cell_rect(i) : i \in {j \in 1 .. GOL_MEMORY_SIZE - 1 : self.memory[j] = 1}}]

\* The pointer index without the division by 2.
mouse_index_unscaled(m) ==
    LET col == (m.x \div 8) % 50
        row == (m.y \div 8) % 30
    IN  row * 50 + col

\* The pointer part of handle_events, for the sampled mouse state m.
\* (/ truncates toward zero and % takes the sign of the dividend; on the
\* non-negative coordinates sampled here they are \div and %.)
mouse_index(m) ==
    LET col == ((m.x \div 2) \div 8) % 50
        row == ((m.y \div 2) \div 8) % 30
    IN  row * 50 + col

\* The pointer part without the test of the mode.
mouse_edit_any_mode(self, m) ==
    IF m.left THEN [self EXCEPT !.memory[mouse_index(m)] = 1]
    ELSE IF m.right THEN [self EXCEPT !.memory[mouse_index(m)] = 0]
    ELSE self

mouse_edit(self, m) ==
    IF self.mode = "Edit" /\ (m.left \/ m.right)
    THEN IF m.left THEN [self EXCEPT !.memory[mouse_index(m)] = 1]
         ELSE IF m.right THEN [self EXCEPT !.memory[mouse_index(m)] = 0]
         ELSE self
    ELSE self

\* The last two entries of a history.
last_two(log) == IF Len(log) > 2 THEN Tail(log) ELSE log

\* The toggle without play_cursor.set().
on_return_keep_cursor(st) ==
    LET noted == [st EXCEPT !.toggle_log = last_two(Append(@, <<st.self.mode, st.cursor>>))]
    IN  CASE st.self.mode = "Play" ->
                [noted EXCEPT !.self = set_mode(@, "Edit"), !.cursor = "Crosshair"]
          [] st.self.mode = "Edit" ->
                [noted EXCEPT !.self = set_mode(@, "Play")]
          [] OTHER -> noted

\* The toggle leaving Edit mode for Stop.
on_return_to_stop(st) ==
    LET noted == [st EXCEPT !.toggle_log = last_two(Append(@, <<st.self.mode, st.cursor>>))]
    IN  CASE st.self.mode = "Play" ->
                [noted EXCEPT !.self = set_mode(@, "Edit"), !.cursor = "Crosshair"]
          [] st.self.mode = "Edit" ->
                [noted EXCEPT !.self = set_mode(@, "Stop"), !.cursor = "Arrow"]
          [] OTHER -> noted

\* Event::KeyUp { keycode: Some(Keycode::Return) }.  st is the state the poll
\* loop works on: self, SDL's active cursor, is_running (and the toggle history).
on_return(st) ==
    LET noted == [st EXCEPT !.toggle_log = last_two(Append(@, <<st.self.mode, st.cursor>>))]
    IN  CASE st.self.mode = "Play" ->
                [noted EXCEPT !.self = set_mode(@, "Edit"), !.cursor = "Crosshair"]
          [] st.self.mode = "Edit" ->
                [noted EXCEPT !.self = set_mode(@, "Play"), !.cursor = "Arrow"]
          [] OTHER -> noted

\* One arm of the match in the poll loop.
on_event(st, event) ==
    CASE event = "MouseButtonDown" -> st
      [] event = "KeyUp_Return" -> on_return(st)
      [] event = "KeyUp_F1" -> [st EXCEPT !.self.dark = ~@]
      [] event \in {"Quit", "KeyDown_Escape"} -> [st EXCEPT !.is_running = FALSE]
      [] OTHER -> st

\* The poll loop leaving at the first quit signal or Escape key-press.
RECURSIVE poll_iter_until_quit(_, _)
poll_iter_until_quit(st, events) ==
    IF events = <<>> \/ ~st.is_running THEN st
    ELSE poll_iter_until_quit([on_event(st, Head(events)) EXCEPT !.polled = @ + 1],
                              Tail(events))

\* for event in events.poll_iter() { ... }: one pass of the body for every
\* queued event, in arrival order; polled counts the passes.
RECURSIVE poll_iter(_, _)
poll_iter(st, events) ==
    IF events = <<>> THEN st
    ELSE poll_iter([on_event(st, Head(events)) EXCEPT !.polled = @ + 1], Tail(events))

\* handle_events with the pointer part after the poll loop.
handle_events_poll_first(self, cur, log, m, events) ==
    LET st == poll_iter([self |-> self, cursor |-> cur,
                         is_running |-> TRUE, toggle_log |-> log, polled |-> 0], events)
    IN  [st EXCEPT !.self = mouse_edit(@, m)]

\* GameOfLife::handle_events, given the frame's mouse state and event queue.
handle_events(self, cur, log, m, events) ==
    poll_iter([self |-> mouse_edit(self, m), cursor |-> cur,
               is_running |-> TRUE, toggle_log |-> log, polled |-> 0], events)

\* ------------------------------------------------------------------------
\* Inputs of a frame
\* ------------------------------------------------------------------------
Events == {"MouseButtonDown", "KeyUp_Return", "KeyUp_F1", "Quit", "KeyDown_Escape", "KeyDown_Other"}
EventQueues == UNION {[1 .. n -> Events] : n \in 0 .. MaxEvents}

\* Mouse states sampled: no button held, and buttons held over cells 0 and 775.
MouseStates ==
    {[x |-> 799, y |-> 479, left |-> FALSE, right |-> FALSE],
     [x |-> 0, y |-> 0, left |-> TRUE, right |-> FALSE],
     [x |-> 401, y |-> 243, left |-> TRUE, right |-> FALSE],
     [x |-> 401, y |-> 243, left |-> FALSE, right |-> TRUE],
     [x |-> 401, y |-> 243, left |-> TRUE, right |-> TRUE]}

NoCanvas == [clear |-> <<>>, color |-> <<>>, points |-> {}, rects |-> {}]

\* ------------------------------------------------------------------------
\* The main loop
\* ------------------------------------------------------------------------
\* main, up to the loop: GameOfLife::new(), the seed patterns, is_running = true.
\* Neither cursor has been set yet: SDL shows its default cursor, the system
\* arrow, which is what SystemCursor::Arrow (play_cursor) looks like.  The
\* loop's arithmetic never overflows, so one build profile stands for both.
Init ==
    /\ pc = "handle_events"
    /\ is_running = TRUE
    /\ mode = seeded(new).mode
    /\ dark = seeded(new).dark
    /\ frames = seeded(new).frames
    /\ memory = seeded(new).memory
    /\ cursor = "Arrow"
    /\ sampled = <<>>
    /\ canvas = NoCanvas
    /\ play_updates = 0
    /\ animations = 0
    /\ toggle_log = <<>>
    /\ overflow_checks = TRUE
    /\ twin = <<>>
    /\ anim = <<>>
    /\ wrap_call = <<>>
    /\ pattern = <<>>
    /\ access = <<>>

\* is_running = game_of_life.handle_events(&mut event_pump);
HandleEvents ==
    /\ pc = "handle_events"
    /\ play_updates < MaxPlayFrames
    /\ \E m \in MouseStates, events \in EventQueues :
          \E st \in {handle_events(Self, cursor, toggle_log, m, events)} :
              /\ mode' = st.self.mode
              /\ dark' = st.self.dark
              /\ frames' = st.self.frames
              /\ memory' = st.self.memory
              /\ cursor' = st.cursor
              /\ is_running' = st.is_running
              /\ toggle_log' = st.toggle_log
              /\ sampled' = <<[mouse |-> m, mode |-> mode,
                               quit |-> \E k \in DOMAIN events :
                                           events[k] \in {"Quit", "KeyDown_Escape"},
                               drained |-> st.polled = Len(events)]>>
    /\ canvas' = NoCanvas
    /\ pc' = "update"
    /\ UNCHANGED <<play_updates, animations, overflow_checks, aux_vars>>

\* game_of_life.update();
Update ==
    /\ pc = "update"
    /\ \E self \in {update(Self)} :
           /\ mode' = self.mode
           /\ dark' = self.dark
           /\ frames' = self.frames
           /\ memory' = self.memory
    /\ play_updates' = IF mode = "Play" THEN play_updates + 1 ELSE play_updates
    /\ animations' = IF update_fires(Self) THEN animations + 1 ELSE animations
    /\ sampled' = <<>>
    /\ pc' = "draw"
    /\ UNCHANGED <<is_running, cursor, canvas, toggle_log, overflow_checks, aux_vars>>

\* game_of_life.draw(texture_canvas); render_frame; then the loop test.
Draw ==
    /\ pc = "draw"
    /\ canvas' = draw(Self)
    /\ pc' = IF is_running THEN "handle_events" ELSE "done"
    /\ UNCHANGED <<is_running, mode, dark, frames, memory, cursor, sampled,
                   play_updates, animations, toggle_log, overflow_checks, aux_vars>>

Next == HandleEvents \/ Update \/ Draw

Spec == Init /\ [][Next]_vars

\* ------------------------------------------------------------------------
\* SpecRule: animate applied to grids drawn from a window of cells around
\* index 0 and the end of the array (every grid is reachable by Edit-mode
\* edits; the window keeps the cells whose neighbourhoods wrap).
\* ------------------------------------------------------------------------
grid_of(live) == [i \in Cells |-> IF i \in live THEN 1 ELSE 0]

RuleWindow == {0, 1, 2, 51, 1449, 1498, 1499}
RuleGrids == {grid_of(live) : live \in SUBSET RuleWindow}

\* The state outside the main loop: a session as new() makes it, nothing run.
Idle ==
    /\ is_running = TRUE
    /\ mode = new.mode
    /\ dark = new.dark
    /\ frames = new.frames
    /\ cursor = "Arrow"
    /\ sampled = <<>>
    /\ canvas = NoCanvas
    /\ play_updates = 0
    /\ animations = 0
    /\ toggle_log = <<>>

RuleInit ==
    /\ pc = "animate"
    /\ memory \in RuleGrids
    /\ Idle
    /\ overflow_checks = TRUE
    /\ twin = <<>>
    /\ anim = <<>>
    /\ wrap_call = <<>>
    /\ pattern = <<>>
    /\ access = <<>>

\* self.animate();
Animate ==
    /\ pc = "animate"
    /\ animations < MaxGenerations
    /\ \E self \in {animate(Self)} :
           /\ mode' = self.mode
           /\ dark' = self.dark
           /\ frames' = self.frames
           /\ memory' = self.memory
    /\ animations' = animations + 1
    /\ UNCHANGED <<pc, is_running, cursor, sampled, canvas, play_updates, toggle_log,
                   overflow_checks, aux_vars>>

SpecRule == RuleInit /\ [][Animate]_vars

\* The number of the 8 neighbour offsets d for which G[wrap(i + d, 0, COLS*ROWS)]
\* is alive, G being the whole grid.
live_neighbors(G, i) ==
    Cardinality({d \in 1 .. 8 : G[wrap(i + GOL_NEIGHBORS[d], 0, GOL_MEMORY_SIZE)] = 1})

\* C3: after one step, cell i (1 <= i < COLS*ROWS) is alive iff (G[i] is alive
\* and k is 2 or 3) or (G[i] is dead and k = 3), k counted on the full grid G
\* of the generation before the step.
C3_RuleOnFullCopy ==
    [][pc = "animate" =>
          \A i \in 1 .. GOL_MEMORY_SIZE - 1 :
             LET k == live_neighbors(memory, i)
             IN  (memory'[i] = 1)
                    <=> ((memory[i] = 1 /\ k \in {2, 3}) \/ (memory[i] = 0 /\ k = 3))]_vars

\* The cells one of whose wrapped neighbour offsets lands on index 0.
neighbors_of_zero ==
    {i \in Cells : \E d \in 1 .. 8 : wrap(i + GOL_NEIGHBORS[d], 0, GOL_MEMORY_SIZE) = 0}

\* C5: whenever cell 0 is alive, the step counts it as a live neighbour of cell
\* COLS*ROWS - 1 and of the other cells whose wrapped offsets land on index 0:
\* their next state is the rule applied to a count that includes cell 0.
C5_CellZeroCounted ==
    [][(pc = "animate" /\ memory[0] = 1) =>
          /\ GOL_MEMORY_SIZE - 1 \in neighbors_of_zero
          /\ \A i \in neighbors_of_zero \ {0} :
                memory'[i] = rules(memory[i], live_neighbors(memory, i))]_vars

\* C17: a step never changes the cell at index 0: for every grid, its value
\* after animate equals its value before, whatever its neighbours are.
C17_CellZeroKept == [][pc = "animate" => memory'[0] = memory[0]]_vars

\* Cell 0, alive with no live neighbour, is still alive after two steps.
C17_Witness ==
    /\ pc = "animate"
    /\ animations = 2
    /\ memory = grid_of({0})

\* ------------------------------------------------------------------------
\* SpecTwin: two sessions holding the same grid; the second one differs in
\* mode, theme and timer, and they change between the steps.
\* ------------------------------------------------------------------------
TwinExtra == {0, 361, 1141}
TwinGrids ==
    {[i \in Cells |-> IF i \in live THEN 1 ELSE seeded(new).memory[i]] :
        live \in SUBSET TwinExtra}
TwinSessions(mem) ==
    {[mode |-> m, dark |-> d, frames |-> <<16, t>>, memory |-> mem] :
        m \in GameMode, d \in BOOLEAN, t \in {1, 16}}

TwinInit ==
    /\ pc = "animate"
    /\ memory \in TwinGrids
    /\ twin \in TwinSessions(memory)
    /\ Idle
    /\ overflow_checks = TRUE
    /\ anim = <<>>
    /\ wrap_call = <<>>
    /\ pattern = <<>>
    /\ access = <<>>

\* Both sessions call animate.
TwinAnimate ==
    /\ pc = "animate"
    /\ animations < MaxGenerations
    /\ \E self \in {animate(Self)} :
           /\ mode' = self.mode
           /\ dark' = self.dark
           /\ frames' = self.frames
           /\ memory' = self.memory
    /\ twin' = animate(twin)
    /\ animations' = animations + 1
    /\ UNCHANGED <<pc, is_running, cursor, sampled, canvas, play_updates, toggle_log,
                   overflow_checks, anim, wrap_call, pattern, access>>

\* The second session's mode, theme and timer change (toggles, F1, frames).
TwinPerturb ==
    /\ pc = "animate"
    /\ \E other \in TwinSessions(twin.memory) : other # twin /\ twin' = other
    /\ UNCHANGED <<main_vars, anim, wrap_call, pattern, access>>

TwinNext == TwinAnimate \/ TwinPerturb

SpecTwin == TwinInit /\ [][TwinNext]_vars

\* C7: two sessions started from the same grid and stepped the same number of
\* times hold identical grids after every step, whatever their modes, timers
\* and theme flags are and have been.
C7_Determinism == twin.memory = memory

\* Both sessions have stepped twice; the second differs in mode, theme and timer.
C7_Witness ==
    /\ animations = 2
    /\ twin.mode = "Edit"
    /\ twin.dark # dark
    /\ twin.frames # frames
    /\ memory # seeded(new).memory

\* ------------------------------------------------------------------------
\* SpecZero: two sessions whose grids differ in cell 0 and in nothing else,
\* stepped together.
\* ------------------------------------------------------------------------
\* Cells around index 0: its neighbours 1, 51, 1449, 1499, and 2 and 52, which
\* with 1 and 51 make the block next to it.
ZeroWindow == {1, 2, 51, 52, 1449, 1499}
ZeroGrids == {grid_of(live) : live \in SUBSET (ZeroWindow \cup {0})}

ZeroInit ==
    /\ pc = "animate"
    /\ memory \in ZeroGrids
    /\ Idle
    /\ twin = [Self EXCEPT !.memory[0] = 1 - @]
    /\ overflow_checks = TRUE
    /\ anim = <<>>
    /\ wrap_call = <<>>
    /\ pattern = <<>>
    /\ access = <<>>

SpecZero == ZeroInit /\ [][TwinAnimate]_vars

\* C20: two grids that differ only in cell 0 agree, after any number of steps,
\* on every cell with index >= 1, and the renderer emits the same rectangles
\* for both: cell 0 influences no other cell and nothing drawn.
C20_CellZeroInert ==
    /\ \A i \in 1 .. GOL_MEMORY_SIZE - 1 : twin.memory[i] = memory[i]
    /\ draw(twin).rects = draw(Self).rects

\* Two steps on grids holding the block 1, 2, 51, 52, with cell 0 alive in one
\* and dead in the other: the block stands in both.
C20_Witness ==
    /\ animations = 2
    /\ memory[0] = 1
    /\ twin.memory[0] = 0
    /\ \A i \in {1, 2, 51, 52} : memory[i] = 1 /\ twin.memory[i] = 1

\* ------------------------------------------------------------------------
\* SpecVisit: one call of animate, one visit of its second loop at a time,
\* with the cells visited in ascending order (the code's) and in other orders,
\* next to a naive in-place pass over the same grid in the same order.
\* ------------------------------------------------------------------------
\* The k-th cell visited (k = 0 ..): a permutation of 1 .. len-1 for every
\* stride, len-1 = 1499 being prime; stride 1 is the code's for i in 1 .. len.
visit_order(stride, k) == ((k * stride) % (GOL_MEMORY_SIZE - 1)) + 1
VisitStrides == {1, 7, GOL_MEMORY_SIZE - 2}
VisitGrids == {seeded(new).memory, grid_of(SeedCells \cup {0, 1, 2, 51, 1449})}

VisitInit ==
    /\ pc = "visit"
    /\ memory \in VisitGrids
    /\ anim \in {[start |-> memory, copy_of_cells |-> copy_cells(memory),
                  stride |-> stride, visited |-> 0, in_place |-> memory] :
                    stride \in VisitStrides}
    /\ Idle
    /\ overflow_checks = TRUE
    /\ twin = <<>>
    /\ wrap_call = <<>>
    /\ pattern = <<>>
    /\ access = <<>>

\* One pass of the loop body.
Visit ==
    /\ pc = "visit"
    /\ anim.visited < GOL_MEMORY_SIZE - 1
    /\ LET i == visit_order(anim.stride, anim.visited)
       IN  /\ memory' = visit(memory, anim.copy_of_cells, i)
           /\ anim' = [anim EXCEPT !.visited = @ + 1,
                                   !.in_place = visit_in_place(@, @, i)]
    /\ UNCHANGED <<pc, is_running, mode, dark, frames, cursor, sampled, canvas,
                   play_updates, animations, toggle_log, overflow_checks,
                   twin, wrap_call, pattern, access>>

SpecVisit == VisitInit /\ [][Visit]_vars

\* C4: every visit writes the rule applied to values of the snapshot taken
\* before the first write; so whatever the order of the visits, the grid after
\* the last one is the same (the one animate yields), and it differs from the
\* naive in-place pass on a grid holding three cells in a row.
C4_Simultaneity ==
    /\ anim.visited >= 1 =>
          LET i == visit_order(anim.stride, anim.visited - 1)
          IN  memory[i] = next_cell(copy_cells(anim.start), i)
    /\ anim.visited = GOL_MEMORY_SIZE - 1 =>
          /\ memory = animate([Self EXCEPT !.memory = anim.start]).memory
          /\ (anim.stride = 1 /\ {310, 360, 410} \subseteq {i \in Cells : anim.start[i] = 1})
                => anim.in_place # memory

\* The loop has finished in an order other than the code's, on a grid whose
\* blinker has turned.
C4_Witness ==
    /\ anim.visited = GOL_MEMORY_SIZE - 1
    /\ anim.stride = 7
    /\ memory[359] = 1
    /\ memory[361] = 1
    /\ memory[310] = 0

\* ------------------------------------------------------------------------
\* SpecWrap: calls of wrap, in builds with and without overflow checks.
\* ------------------------------------------------------------------------
WrapEnds == {I32_MIN, I32_MIN + 1, -1500, -1, 0, 1, 2, 1500, I32_MAX - 1, I32_MAX}
WrapBounds == {b \in WrapEnds \X WrapEnds : b[1] < b[2]}

\* x moved by k widths w, as far as the i32 range allows.
RECURSIVE shifted(_, _, _)
shifted(x, w, k) ==
    IF k = 0 THEN x
    ELSE IF k > 0 THEN (IF AddOverflows(x, w) THEN x ELSE shifted(x + w, w, k - 1))
    ELSE (IF SubOverflows(x, w) THEN x ELSE shifted(x - w, w, k + 1))

\* Arguments up to MaxWraps widths out of range for the ranges whose width is
\* an i32, the i32 extremes for the wider ranges, and every i + d of animate.
WrapArgs ==
    {[n |-> shifted(b[1] + off, b[2] - b[1], k), min |-> b[1], max |-> b[2]] :
        b \in {c \in WrapBounds : ~SubOverflows(c[2], c[1])},
        off \in {0, 1}, k \in -MaxWraps .. MaxWraps}
    \cup {[n |-> n, min |-> b[1], max |-> b[2]] :
            b \in {c \in WrapBounds : SubOverflows(c[2], c[1])}, n \in WrapEnds}
    \cup {[n |-> n, min |-> 0, max |-> GOL_MEMORY_SIZE] :
            n \in (-GOL_COLS - 1) .. (GOL_MEMORY_SIZE - 1 + GOL_COLS + 1)}

WrapInit ==
    /\ pc = "wrap"
    /\ memory = new.memory
    /\ Idle
    /\ overflow_checks \in BOOLEAN
    /\ wrap_call \in {[n |-> a.n, min |-> a.min, max |-> a.max,
                       status |-> "called", ret |-> 0] : a \in WrapArgs}
    /\ twin = <<>>
    /\ anim = <<>>
    /\ pattern = <<>>
    /\ access = <<>>

\* The call runs: it returns a value or panics.
WrapRun ==
    /\ pc = "wrap"
    /\ wrap_call.status = "called"
    /\ wrap_call' =
          IF wrap_panics(wrap_call.n, wrap_call.min, wrap_call.max)
          THEN [wrap_call EXCEPT !.status = "panicked"]
          ELSE [wrap_call EXCEPT !.status = "returned",
                                 !.ret = wrap(wrap_call.n, wrap_call.min, wrap_call.max)]
    /\ UNCHANGED <<main_vars, twin, anim, pattern, access>>

SpecWrap == WrapInit /\ [][WrapRun]_vars

\* r is congruent to n modulo (max - min), for r in [min, max).  When the width
\* is no i32, every i32 n lies within one width of the range.
congruent(r, n, min, max) ==
    IF ~SubOverflows(max, min) THEN r % (max - min) = n % (max - min)
    ELSE r = (IF n < min THEN (n - min) + max
              ELSE IF n >= max THEN (n - max) + min
              ELSE n)

wrap_result_ok ==
    /\ wrap_call.status = "returned"
    /\ wrap_call.min <= wrap_call.ret
    /\ wrap_call.ret < wrap_call.max
    /\ congruent(wrap_call.ret, wrap_call.n, wrap_call.min, wrap_call.max)

\* C6 as stated: for every n and bounds min < max, wrap terminates and returns
\* the value r with min <= r < max congruent to n modulo (max - min).
C6_WrapTotal == wrap_call.status # "called" => wrap_result_ok

\* C6 as amended: the same, for the bounds whose width max - min is an i32
\* (as for 0 and COLS*ROWS) and, in a build without overflow checks, for all.
C6_WrapWidthFits ==
    (/\ wrap_call.status # "called"
     /\ \/ ~SubOverflows(wrap_call.max, wrap_call.min)
        \/ ~overflow_checks)
        => wrap_result_ok

\* wrap has returned 0 for an argument three widths below [0, COLS*ROWS), in a
\* build with overflow checks.
C6_Witness ==
    /\ wrap_call.status = "returned"
    /\ overflow_checks
    /\ wrap_call.min = 0
    /\ wrap_call.max = GOL_MEMORY_SIZE
    /\ wrap_call.n = -3 * GOL_MEMORY_SIZE
    /\ wrap_call.ret = 0

\* ------------------------------------------------------------------------
\* SpecIndex: the indexings of the grid whose index is computed: the neighbour
\* reads of animate, for every cell visited and every offset, and the pointer
\* write of handle_events, for the pointer positions inside the window.
\* ------------------------------------------------------------------------
\* Pointer positions: every x on the top and bottom pixel rows, every y on the
\* left and right pixel columns (the index is row(y) * 50 + col(x)).
PointerPositions ==
    {<<x, y>> : x \in 0 .. SCREEN_OUTPUT[1] - 1, y \in {0, SCREEN_OUTPUT[2] - 1}}
    \cup {<<x, y>> : x \in {0, SCREEN_OUTPUT[1] - 1}, y \in 0 .. SCREEN_OUTPUT[2] - 1}

Accesses ==
    {[kind |-> "neighbor", i |-> i, k |-> k, x |-> 0, y |-> 0,
      status |-> "pending", idx |-> 0] : i \in 1 .. GOL_MEMORY_SIZE - 1, k \in 1 .. 8}
    \cup {[kind |-> "pointer", i |-> 0, k |-> 0, x |-> p[1], y |-> p[2],
            status |-> "pending", idx |-> 0] : p \in PointerPositions}

IndexInit ==
    /\ pc = "index"
    /\ memory = seeded(new).memory
    /\ Idle
    /\ overflow_checks = TRUE
    /\ access \in Accesses
    /\ twin = <<>>
    /\ anim = <<>>
    /\ wrap_call = <<>>
    /\ pattern = <<>>

\* The indexing goes through or panics with "index out of bounds".
indexed(a, idx) ==
    [a EXCEPT !.idx = idx,
              !.status = IF index_panics(idx) THEN "IndexOutOfBounds" ELSE "done"]

\* copy_of_cells[wrap(neighbor + i as i32, 0, GOL_MEMORY_SIZE as i32) as usize]
NeighborLookup ==
    /\ pc = "index"
    /\ access.kind = "neighbor"
    /\ access.status = "pending"
    /\ access' = indexed(access, neighbor_index(access.i, access.k))
    /\ UNCHANGED <<main_vars, twin, anim, wrap_call, pattern>>

\* self.memory[idx], idx = (row * 50 + col) as usize, with a button held in
\* Edit mode.
PointerLookup ==
    /\ pc = "index"
    /\ access.kind = "pointer"
    /\ access.status = "pending"
    /\ access' = indexed(access, mouse_index([x |-> access.x, y |-> access.y]))
    /\ UNCHANGED <<main_vars, twin, anim, wrap_call, pattern>>

IndexNext == NeighborLookup \/ PointerLookup

SpecIndex == IndexInit /\ [][IndexNext]_vars

\* C18: no grid access uses an index outside [0, COLS*ROWS): the neighbour
\* read of every cell and offset, and the pointer write for every pointer
\* position with 0 <= x < 800 and 0 <= y < 480, are in range, so the
\* IndexOutOfBounds failure is unreachable.
C18_IndexInRange ==
    /\ access.status # "IndexOutOfBounds"
    /\ access.status = "done" => access.idx \in Cells

\* The read of the neighbour at offset -COLS - 1 of cell 1, which wrap moves
\* from -50 to 1450, has gone through.
C18_Witness ==
    /\ access.kind = "neighbor"
    /\ access.status = "done"
    /\ access.i = 1
    /\ GOL_NEIGHBORS[access.k] = -GOL_COLS - 1
    /\ access.idx = GOL_MEMORY_SIZE - GOL_COLS

\* ------------------------------------------------------------------------
\* SpecPattern: animate applied to a grid seeded with one pattern at every
\* base index.
\* ------------------------------------------------------------------------
\* The 2x2 block at base b, indices wrapped into the array.
block(b) == {wrap(b + d, 0, GOL_MEMORY_SIZE) : d \in {0, 1, GOL_COLS, GOL_COLS + 1}}

\* The blinker main seeds: the vertical line 310, 360, 410, centred at 360.
blinker(b) == {b - GOL_COLS, b, b + GOL_COLS}

\* The blinker turned: the horizontal line through its centre.
blinker_turned(b) == {b - 1, b, b + 1}

\* The glider main seeds at base 1040 (1040, 1088, 1090, 1139, 1140), moved to
\* base b, indices wrapped into the array.
glider(b) ==
    {wrap(b + d, 0, GOL_MEMORY_SIZE) :
        d \in {0, GOL_COLS - 2, GOL_COLS, 2 * GOL_COLS - 1, 2 * GOL_COLS}}

pattern_cells(p) ==
    CASE p.kind = "block" -> block(p.base)
      [] p.kind = "blinker" -> blinker(p.base)
      [] p.kind = "glider" -> glider(p.base)

PatternInit ==
    /\ pc = "animate"
    /\ pattern \in {[kind |-> "block", base |-> b] : b \in Cells}
                    \cup {[kind |-> "blinker", base |-> 360]}
    /\ memory = grid_of(pattern_cells(pattern))
    /\ Idle
    /\ overflow_checks = TRUE
    /\ twin = <<>>
    /\ anim = <<>>
    /\ wrap_call = <<>>
    /\ access = <<>>

SpecPattern == PatternInit /\ [][Animate]_vars

\* C10: a grid whose only live cells are the 2x2 block at base b is a fixed
\* point of animate, for every base b: after any number of steps the grid
\* equals the initial grid.
C10_BlockStill == pattern.kind = "block" => memory = grid_of(block(pattern.base))

\* Two steps on the block at base 1499, which wraps over the end of the array
\* and holds cell 0.
C10_Witness ==
    /\ pattern.kind = "block"
    /\ pattern.base = GOL_MEMORY_SIZE - 1
    /\ animations = 2
    /\ memory[0] = 1
    /\ memory[GOL_COLS] = 1

\* C11: from the grid with exactly the cells 310, 360, 410 alive, one step
\* yields exactly 359, 360, 361, a second step exactly 310, 360, 410 again, and
\* so on with period 2.
C11_BlinkerPeriod ==
    pattern.kind = "blinker" =>
        memory = grid_of(IF animations % 2 = 0 THEN {310, 360, 410} ELSE {359, 360, 361})

\* The blinker after two steps, vertical again.
C11_Witness ==
    /\ pattern.kind = "blinker"
    /\ animations = 2
    /\ memory = grid_of(blinker(pattern.base))
    /\ memory # grid_of(blinker_turned(pattern.base))

\* ------------------------------------------------------------------------
\* SpecGlider: animate applied MaxGlides times to a grid seeded with the
\* glider at one base index.
\* ------------------------------------------------------------------------
\* The seeded base, and the bases of the last three rows and the first row,
\* from which the glider meets the ends of the array.
GliderBases ==
    {1040} \cup (GOL_MEMORY_SIZE - 3 * GOL_COLS - 1 .. GOL_MEMORY_SIZE - 1) \cup (0 .. GOL_COLS)

GliderInit ==
    /\ pc = "glide"
    /\ pattern \in {[kind |-> "glider", base |-> b] : b \in GliderBases}
    /\ memory = grid_of(pattern_cells(pattern))
    /\ Idle
    /\ overflow_checks = TRUE
    /\ twin = <<>>
    /\ anim = <<>>
    /\ wrap_call = <<>>
    /\ access = <<>>

\* self.animate(); on the glider's grid
Glide ==
    /\ pc = "glide"
    /\ animations < MaxGlides
    /\ \E self \in {animate(Self)} :
           /\ mode' = self.mode
           /\ dark' = self.dark
           /\ frames' = self.frames
           /\ memory' = self.memory
    /\ animations' = animations + 1
    /\ UNCHANGED <<pc, is_running, cursor, sampled, canvas, play_updates, toggle_log,
                   overflow_checks, aux_vars>>

SpecGlider == GliderInit /\ [][Glide]_vars

\* C12: for every base b, the grid whose only live cells are the glider at b
\* has, after exactly 4 steps, as its only live cells the glider at
\* b + COLS + 1 (one cell down and one cell right, wrapped).
C12_GliderTranslation ==
    (pattern.kind = "glider" /\ animations = 4)
        => memory = grid_of(glider(pattern.base + GOL_COLS + 1))

\* ------------------------------------------------------------------------
\* Properties of the main loop (Spec)
\* ------------------------------------------------------------------------

\* C1: with period P = frames[1] = 16 and the timer starting at P, update calls
\* animate exactly in every P-th of the updates that run in Play mode (counting
\* only those), and never in an update that runs in Edit or Stop mode; an
\* update that does not call it leaves the grid alone.
C1_TimerGating ==
    [][pc = "update" =>
          /\ animations' \in {animations, animations + 1}
          /\ (animations' = animations + 1)
                <=> (mode = "Play" /\ (play_updates + 1) % frames[1] = 0)
          /\ (animations' = animations + 1) => memory' = animate(Self).memory
          /\ (animations' = animations) => memory' = memory
          /\ (mode # "Play") => (frames' = frames /\ play_updates' = play_updates)]_vars

\* animate has fired twice, on the 16th and the 32nd Play update, and frames
\* were spent in Edit mode on the way.
C1_Witness ==
    /\ pc = "draw"
    /\ animations = 2
    /\ play_updates = 32
    /\ Len(toggle_log) = 2

\* C2: handle_events run in Play (or Stop) mode leaves every cell unchanged
\* whatever the pointer does; run in Edit mode it sets the cell under the
\* pointer: alive with the left button, dead with the right button alone.
C2_ModeGating ==
    [][pc = "handle_events" =>
          LET m == sampled'[1].mouse
          IN  /\ (mode # "Edit") => memory' = memory
              /\ (mode = "Edit" /\ m.left)
                    => memory' = [memory EXCEPT ![mouse_index(m)] = 1]
              /\ (mode = "Edit" /\ ~m.left /\ m.right)
                    => memory' = [memory EXCEPT ![mouse_index(m)] = 0]
              /\ (mode = "Edit" /\ ~m.left /\ ~m.right) => memory' = memory]_vars

\* handle_events has just sampled a held left button over the dead cell 0 in
\* Play mode and left it dead, while cell 775 is alive from an Edit-mode press.
C2_Witness ==
    /\ pc = "update"
    /\ sampled # <<>>
    /\ sampled[1].mode = "Play"
    /\ sampled[1].mouse.left
    /\ mouse_index(sampled[1].mouse) = 0
    /\ memory[0] = 0
    /\ memory[775] = 1

\* C8: in every reachable state the grid has length COLS*ROWS and every cell
\* holds exactly 0 or 1.
C8_CellsBinary ==
    /\ DOMAIN memory = Cells
    /\ \A i \in Cells : memory[i] \in {0, 1}

\* The grid after a generation step and Edit-mode edits (cell 0 is set alive
\* by the pointer only).
C8_Witness ==
    /\ animations >= 1
    /\ memory[0] = 1
    /\ \E i \in SeedCells : memory[i] = 0

\* C9: two toggles (Return key releases), in one frame or in different
\* frames, bring back the mode and the cursor that were in effect before the
\* first of the two.
C9_ToggleSymmetry ==
    Len(toggle_log) = 2 => toggle_log[1] = <<mode, cursor>>

\* At least three toggles have been processed, the last two from Edit mode.
C9_Witness ==
    /\ Len(toggle_log) = 2
    /\ toggle_log[1] = <<"Edit", "Crosshair">>
    /\ mode = "Edit"

\* C13: a frame whose event queue holds a quit signal or an Escape key-press,
\* in any mode, still handles every queued event, runs its update and its
\* draw, and then the loop exits; after that nothing runs any more.  (Until
\* the loop has exited, the next step of that frame can always be taken.)
C13_CooperativeQuit ==
    /\ [][
           /\ pc = "handle_events" =>
                (/\ pc' = "update"
                 /\ sampled'[1].drained
                 /\ is_running' <=> ~sampled'[1].quit)
           /\ (pc = "update" /\ ~is_running) =>
                (/\ pc' = "draw"
                 /\ [mode |-> mode', dark |-> dark', frames |-> frames', memory |-> memory']
                       = update(Self)
                 /\ ~is_running')
           /\ (pc = "draw" /\ ~is_running) =>
                (/\ pc' = "done"
                 /\ canvas' = draw(Self))
           /\ pc # "done"
       ]_vars
    /\ []((~is_running /\ pc # "done") => ENABLED Next)

\* The loop has exited after a frame that switched to Edit mode and to the
\* light theme and held a quit; that frame's draw shows the guide grid.
C13_Witness ==
    /\ pc = "done"
    /\ ~is_running
    /\ mode = "Edit"
    /\ ~dark
    /\ canvas.points = grid_points
    /\ canvas.clear = get_color(1)

\* C14: the mode is Play in the initial state, and in every state reachable by
\* any sequence of frames and input events it is Edit or Play, never Stop.
C14_NeverStop == mode = "Play" /\ [](mode \in {"Edit", "Play"})

\* Edit mode at the start of a frame, entered from Play by the last toggle,
\* after a generation step and a change of theme.
C14_Witness ==
    /\ pc = "handle_events"
    /\ mode = "Edit"
    /\ Len(toggle_log) = 2
    /\ toggle_log[2] = <<"Play", "Arrow">>
    /\ animations >= 1
    /\ ~dark

\* C15: in every frame and every mode, the rectangles the renderer emits are
\* exactly the CELL_W x CELL_H rectangles at (col*CELL_W, row*CELL_H) of the
\* live cells i in [0, COLS*ROWS), col = i mod COLS, row = i div COLS.
C15_RectsAreLiveCells ==
    canvas # NoCanvas =>
        canvas.rects =
            {<<(i % GOL_COLS) * GOL_CELL_W, (i \div GOL_COLS) * GOL_CELL_H,
               GOL_CELL_W, GOL_CELL_H>> : i \in {j \in Cells : memory[j] = 1}}

\* C16 as stated: in Edit mode with a button held and the pointer at (x, y)
\* in output pixels, the edited cell is at column (x div CELL_W) mod COLS and
\* row (y div CELL_H) mod ROWS, index row*COLS + col; the primary button sets
\* it alive, the secondary button sets it dead.
C16_PointerCellUnscaled ==
    [][(pc = "handle_events" /\ mode = "Edit") =>
          LET m == sampled'[1].mouse
              col == (m.x \div GOL_CELL_W) % GOL_COLS
              row == (m.y \div GOL_CELL_H) % GOL_ROWS
              idx == row * GOL_COLS + col
          IN  /\ m.left => memory' = [memory EXCEPT ![idx] = 1]
              /\ (~m.left /\ m.right) => memory' = [memory EXCEPT ![idx] = 0]]_vars

\* C16 as amended: the same with column ((x div 2) div CELL_W) mod COLS and
\* row ((y div 2) div CELL_H) mod ROWS: the 400 x 240 picture is shown at
\* twice its size, so a cell covers 16 x 16 output pixels.  The secondary
\* button sets the cell dead when the primary is not held.
C16_PointerCellScaled ==
    [][(pc = "handle_events" /\ mode = "Edit") =>
          LET m == sampled'[1].mouse
              col == ((m.x \div 2) \div GOL_CELL_W) % GOL_COLS
              row == ((m.y \div 2) \div GOL_CELL_H) % GOL_ROWS
              idx == row * GOL_COLS + col
          IN  /\ m.left => memory' = [memory EXCEPT ![idx] = 1]
              /\ (~m.left /\ m.right) => memory' = [memory EXCEPT ![idx] = 0]]_vars

\* handle_events has sampled, in Edit mode, the left button held at (401, 243):
\* cell 775 (row 15, column 25) is alive, cell 0 is not.
C16_Witness ==
    /\ pc = "update"
    /\ sampled # <<>>
    /\ sampled[1].mode = "Edit"
    /\ sampled[1].mouse.x = 401
    /\ sampled[1].mouse.y = 243
    /\ sampled[1].mouse.left
    /\ ~sampled[1].mouse.right
    /\ memory[15 * GOL_COLS + 25] = 1
    /\ memory[0] = 0

\* C19: within a frame the steps run in the order pointer sample, queued
\* events, update, draw.  The pointer edit is decided by the mode held before
\* the frame's events are handled; the timer decrement and the generation step
\* by the mode after them.  So a frame whose toggle switches Play to Edit
\* applies no pointer edit and no timer decrement, and a frame whose toggle
\* switches Edit to Play applies the pointer edit and the timer decrement.
C19_FrameOrder ==
    [][
       /\ pc = "handle_events" =>
            LET m == sampled'[1].mouse
            IN  /\ pc' = "update"
                /\ sampled'[1].mode = mode
                /\ frames' = frames
                /\ (mode = "Edit" /\ (m.left \/ m.right)) =>
                      memory' = [memory EXCEPT ![mouse_index(m)] = IF m.left THEN 1 ELSE 0]
                /\ (mode # "Edit" \/ (~m.left /\ ~m.right)) => memory' = memory
       /\ pc = "update" =>
            /\ pc' = "draw"
            /\ mode' = mode
            /\ mode = "Play" =>
                  /\ frames'[2] = (IF frames[2] - 1 <= 0 THEN frames[1] ELSE frames[2] - 1)
                  /\ (memory' # memory) => frames[2] - 1 <= 0
            /\ mode # "Play" => (frames' = frames /\ memory' = memory)
            /\ (sampled[1].mode = "Play" /\ mode = "Edit") =>
                  (frames' = frames /\ memory' = memory)
            /\ (sampled[1].mode = "Edit" /\ mode = "Play") => frames' # frames
       /\ pc = "draw" =>
            /\ pc' \in {"handle_events", "done"}
            /\ canvas' = draw(Self)
            /\ UNCHANGED <<mode, frames, memory>>
      ]_vars

\* A frame that began in Edit mode with the left button held at (401, 243) and
\* whose toggle switched to Play: cell 775 has been set alive, the timer stands
\* at 1 and the update that follows counts it down and steps the grid.
C19_Witness ==
    /\ pc = "update"
    /\ sampled # <<>>
    /\ sampled[1].mode = "Edit"
    /\ mode = "Play"
    /\ sampled[1].mouse.left
    /\ mouse_index(sampled[1].mouse) = 775
    /\ memory[775] = 1
    /\ frames[2] = 1
    /\ animations = 1

====
